---- MODULE Spec2Model ----
(***************************************************************************)
(* Model of the analysis cache/refresh/fallback orchestration of the       *)
(* GitHub repository analyzer: fetchAndAnalyze ("resolve") and the GET and *)
(* POST handlers of /api/analyze-repo, getRepositoryInfo, the GitHub       *)
(* provider's fetchRepository, AIAnalysisService.analyzeRepository and the *)
(* two tables of the store (repositories, ai_analyses).                    *)
(*                                                                         *)
(* Time is counted in whole days (the only use of the clock that decides   *)
(* anything is the 7-day cache test); a call lasts far less than a day,    *)
(* so the clock advances only between calls.  The name of the requested    *)
(* repository decides no branch of fetchAndAnalyze: the store and the      *)
(* calls are modelled for one requested key, and the text of the name      *)
(* enters only the error messages the handlers classify.                   *)
(***************************************************************************)
EXTENDS Integers, Sequences, FiniteSets, TLC

\* ------------------------------------------------------------------ bounds
MaxRows == 26
MaxPage == 3
MaxPolls == 17
MaxRenders == 1
NProcs == 2            \* request handlers that may run at the same time
MaxCalls == 3          \* resolve calls started in one behaviour of sequential requests
MaxRaceCalls == 2      \* resolve calls started in one behaviour of overlapping requests
MaxFaultCalls == 2     \* resolve calls started in one behaviour of a failing store
MaxNow == 8            \* last day of the clock
MaxStoreFaults == 1    \* store operations that fail in one behaviour
MaxInfoCalls == 2      \* getRepositoryInfo calls made on their own in one behaviour
MaxInfoResolves == 1   \* resolve calls started beside them

\* ------------------------------------------------------- program constants
CACHE_DAYS == 7        \* "Cache for 7 days"

Null == "null"         \* JavaScript null / undefined
Procs == 1..NProcs

\* The owner as typed in the request and as GitHub spells it; GitHub looks
\* names up case-insensitively and answers with its own spelling.
ReqOwner == "Acme"
CanonOwner == "acme"
ReqRepo == "<repo>"
\* Names the requested repository may have (GitHub allows letters, digits,
\* '-', '_' and '.').
RepoNames == {"hello", "Unauthorized", "404"}
Languages == {"TypeScript", Null}

\* ------------------------------------------------------- the error messages
\* A message is a sequence of fragments (template literals and the values
\* interpolated in them).  The handlers classify an error by
\* String.prototype.includes; SubstringsOf lists, for every fragment, which
\* of the handlers' needles occur in it.
Needles == {"authentication failed", "Unauthorized", "not found",
            "rate limit", "rate limit exceeded", "404"}

SubstringsOf(fragment) ==
  CASE fragment = "GitHub API authentication failed. Please check your GITHUB_TOKEN environment variable."
         -> {"authentication failed"}
    [] fragment = " not found" -> {"not found"}
    [] fragment = "GitHub API rate limit exceeded. Please try again later."
         -> {"rate limit", "rate limit exceeded"}
    [] fragment = "Unauthorized" -> {"Unauthorized"}
    [] fragment = "404" -> {"404"}
    [] OTHER -> {}

Includes(msg, needle) == \E i \in DOMAIN msg : needle \in SubstringsOf(msg[i])

\* An Error object: message and, for errors of the database driver, the
\* SQLSTATE code.
MkError(msg, code) == [msg |-> msg, code |-> code]

\* GitHubService.fetchRepository: the Error thrown for a non-OK response.
FetchError(status, owner, repo) ==
  CASE status = 401 -> MkError(<<"GitHub API authentication failed. Please check your GITHUB_TOKEN environment variable.">>, Null)
    [] status = 404 -> MkError(<<"Repository ", owner, "/", repo, " not found">>, Null)
    [] status = 403 -> MkError(<<"GitHub API rate limit exceeded. Please try again later.">>, Null)
    [] OTHER -> MkError(<<"GitHub API error: ", "500 Internal Server Error">>, Null)

\* The statuses GitHub answers a repository request with.
ProviderStatuses == {200, 401, 403, 404, 500}

\* The error of a store operation that fails because the store cannot be
\* reached (SQLSTATE 08006, connection failure).
StoreError == MkError(<<"Connection terminated unexpectedly">>, "08006")

CreateFailedError(owner, repo) ==
  MkError(<<"Failed to create or retrieve repository ", owner, "/", repo>>, Null)

\* The error as it is when the requested repository is called `repo`.
Named(error, repo) ==
  [error EXCEPT !.msg = [i \in DOMAIN @ |-> IF @[i] = ReqRepo THEN repo ELSE @[i]]]

\* ------------------------------------------------------- the HTTP handlers
\* GET /api/analyze-repo: the status of the response to a failed resolve.
GETStatus(error) ==
  IF Includes(error.msg, "authentication failed") \/ Includes(error.msg, "Unauthorized")
  THEN 401
  ELSE IF Includes(error.msg, "not found") THEN 404
  ELSE IF Includes(error.msg, "rate limit") THEN 429
  ELSE 500

\* POST /api/analyze-repo: the status of the response to a failed resolve.
POSTStatus(error) ==
  IF error.code = "23505" THEN 202
  ELSE IF Includes(error.msg, "authentication failed") \/ Includes(error.msg, "Unauthorized")
  THEN 401
  ELSE IF Includes(error.msg, "rate limit exceeded") THEN 429
  ELSE IF Includes(error.msg, "not found") \/ Includes(error.msg, "404") THEN 404
  ELSE 500

\* ------------------------------------------------------- the provider's data
\* What GitHub answers for the repository of the request on day `day`:
\* full_name in GitHub's spelling, the repository's language, and a star
\* count that changes from day to day.
GitHubData(fullName, language, day) ==
  [full_name |-> fullName, owner |-> fullName[1], name |-> fullName[2],
   language |-> language, stargazers_count |-> 10 + day]

\* ------------------------------------------------------- the analysis generator
\* Alternatives as the language model and the web search produce them.
\* A URL is the sequence of its scheme, its host and the fragments of its
\* path and query; a text is a sequence of fragments, each a run of
\* unreserved characters or one other character.
LLMAlternatives ==
  << [name |-> "Alpha", url |-> <<"https://", "alpha.dev">>, reasoning |-> "same purpose"],
     [name |-> "Beta", url |-> <<"https://", "beta.dev">>, reasoning |-> "similar scope"] >>

WebAlternatives ==
  << [name |-> "alpha", url |-> <<"https://", "github.com", "/alpha/alpha">>,
      reasoning |-> "popular"],
     [name |-> "Gamma", url |-> <<"https://", "gamma.dev">>, reasoning |-> "maintained"] >>

\* encodeURIComponent: unreserved characters stay, every other character
\* becomes its percent escape.
encodeURIComponent(text) ==
  [i \in 1..Len(text) |->
     CASE text[i] = " " -> "%20"
       [] text[i] = "#" -> "%23"
       [] text[i] = "+" -> "%2B"
       [] OTHER -> text[i]]

\* z.string().url(): the text parses as a URL, with a scheme and a host.
IsUrl(url) ==
  /\ Len(url) >= 2
  /\ url[1] \in {"https://", "http://"}
  /\ url[2] \notin {"", " "}

\* z.string().min(1)
NonEmpty(text) == text # ""

\* The schema of one alternative, the same in AnalysisSchema,
\* FallbackAnalysisSchema and the schema of the web search results.
AlternativeSchema(alt) ==
  /\ NonEmpty(alt.name)
  /\ IsUrl(alt.url)
  /\ NonEmpty(alt.reasoning)

\* String.prototype.toLowerCase on the names above.
toLowerCase(name) ==
  CASE name = "Alpha" -> "alpha"
    [] name = "Beta" -> "beta"
    [] name = "Gamma" -> "gamma"
    [] OTHER -> name

\* The object generateObject returns under AnalysisSchema.
PrimaryObject ==
  [alternatives |-> LLMAlternatives, category |-> "Web Framework",
   summary |-> "A comprehensive overview", strengths |-> <<"fast">>,
   considerations |-> <<"learning curve">>, useCase |-> "building sites",
   targetAudience |-> "web developers"]

\* The object generateObject returns under FallbackAnalysisSchema, whose
\* optional fields the schema fills with its defaults.
RelaxedObject ==
  [alternatives |-> LLMAlternatives, category |-> "Tool",
   summary |-> "ok", strengths |-> <<"Has active development", "Open source project">>,
   considerations |-> <<"Requires evaluation for specific use case">>,
   useCase |-> "Software development tool",
   targetAudience |-> "Developers and technical users"]

RECURSIVE Dedup(_, _)
\* AIAnalysisService.deduplicateAlternatives: keep the first entry of every
\* lower-cased name; `seen` is the set of keys met so far.
Dedup(alternatives, seen) ==
  IF alternatives = <<>> THEN <<>>
  ELSE LET alt == Head(alternatives)
           key == toLowerCase(alt.name)
       IN IF key \in seen
          THEN Dedup(Tail(alternatives), seen)
          ELSE <<alt>> \o Dedup(Tail(alternatives), seen \cup {key})

deduplicateAlternatives(alternatives) == Dedup(alternatives, {})

\* Array.prototype.slice(0, n)
Slice(seq, n) == IF Len(seq) <= n THEN seq ELSE SubSeq(seq, 1, n)

MAX_ALTERNATIVES == 8

\* AIAnalysisService.enhanceWithWebSearch; web is "ok" when the web search
\* and its parsing succeed, "empty" when the parsing fails (no alternatives
\* found) and "error" when the search itself throws.
enhanceWithWebSearch(initialAnalysis, web) ==
  IF web = "error" THEN initialAnalysis
  ELSE LET enhancedAlternatives == IF web = "ok" THEN WebAlternatives ELSE <<>>
           allAlternatives == initialAnalysis.alternatives \o enhancedAlternatives
           uniqueAlternatives == deduplicateAlternatives(allAlternatives)
       IN [initialAnalysis EXCEPT !.alternatives = Slice(uniqueAlternatives, MAX_ALTERNATIVES)]

\* enhanceWithWebSearch with the alternatives findAlternativesWithWebSearch
\* returns given: `found` when the search and its parsing succeed, none
\* when the parsing fails; when the search throws, the catch returns the
\* initial analysis.
enhanceWithFound(initialAnalysis, web, found) ==
  IF web = "error" THEN initialAnalysis
  ELSE LET enhancedAlternatives == IF web = "ok" THEN found ELSE <<>>
           allAlternatives == initialAnalysis.alternatives \o enhancedAlternatives
           uniqueAlternatives == deduplicateAlternatives(allAlternatives)
       IN [initialAnalysis EXCEPT !.alternatives = Slice(uniqueAlternatives, MAX_ALTERNATIVES)]

\* The fallback category of a repository without a language, as a plausible
\* slip would have it (the language itself, null included).
createFallbackCategoryRaw(language) == language

\* AIAnalysisService.createFallbackAnalysis: `repoData.language || "Unknown"`.
createFallbackCategory(language) == IF language = Null THEN "Unknown" ELSE language

\* AIAnalysisService.createFallbackAnalysis
createFallbackAnalysis(repoData) ==
  [alternatives |-> << [name |-> "Similar Project Search Needed",
                        url |-> <<"https://", "github.com", "/search?q=">>
                                  \o encodeURIComponent(<<repoData.name>>),
                        reasoning |-> "Manual search required due to analysis failure"] >>,
   category |-> createFallbackCategory(repoData.language),
   summary |-> "<name> - <description>",
   strengths |-> <<"Has <n> stars on GitHub", "Written in <language>",
                   "Part of the open source community">>,
   considerations |-> <<"Analysis failed - manual review recommended",
                        "May require deeper investigation",
                        "Check repository directly for latest information">>,
   useCase |-> "<description>",
   targetAudience |-> "Developers working with <language> and open source contributors"]

\* String.prototype.length of the texts of the model: the empty text, a
\* text of two characters, and texts of ten characters or more.
length(text) ==
  CASE text = "" -> 0
    [] text = "ok" -> 2
    [] OTHER -> 10

\* "Schema for structured AI analysis with improved validation"
AnalysisSchema(object) ==
  /\ Len(object.alternatives) >= 1
  /\ \A i \in DOMAIN object.alternatives : AlternativeSchema(object.alternatives[i])
  /\ length(object.category) >= 1
  /\ length(object.summary) >= 10
  /\ Len(object.strengths) >= 1
  /\ \A i \in DOMAIN object.strengths : NonEmpty(object.strengths[i])
  /\ Len(object.considerations) >= 1
  /\ \A i \in DOMAIN object.considerations : NonEmpty(object.considerations[i])
  /\ length(object.useCase) >= 5
  /\ length(object.targetAudience) >= 5

\* "Fallback schema with more lenient validation": strengths and
\* considerations are arrays of any length and useCase and targetAudience
\* strings of any length, each with a default when absent.
FallbackAnalysisSchema(object) ==
  /\ Len(object.alternatives) >= 1
  /\ \A i \in DOMAIN object.alternatives : AlternativeSchema(object.alternatives[i])
  /\ length(object.category) >= 1
  /\ length(object.summary) >= 1

\* The alternatives lists the language model may produce: a good one, an
\* empty one, and lists with an entry without name, without scheme in its
\* URL, or without reasoning.
RawAlternatives ==
  { LLMAlternatives, <<>>,
    << [name |-> "", url |-> <<"https://", "alpha.dev">>, reasoning |-> "same purpose"] >>,
    << [name |-> "Alpha", url |-> <<"alpha.dev">>, reasoning |-> "same purpose"] >>,
    << [name |-> "Alpha", url |-> <<"https://", "alpha.dev">>, reasoning |-> ""] >> }

\* The objects the language model may produce, an absent optional field
\* standing as its default.
RawObjects ==
  [alternatives : RawAlternatives,
   category : {PrimaryObject.category, RelaxedObject.category, ""},
   summary : {PrimaryObject.summary, RelaxedObject.summary, ""},
   strengths : {PrimaryObject.strengths, RelaxedObject.strengths, <<>>},
   considerations : {PrimaryObject.considerations, RelaxedObject.considerations, <<>>},
   useCase : {PrimaryObject.useCase, RelaxedObject.useCase, ""},
   targetAudience : {PrimaryObject.targetAudience, RelaxedObject.targetAudience, ""}]

\* The objects generateObject returns under each schema.
StrictObjects == {object \in RawObjects : AnalysisSchema(object)}

RelaxedObjects == {object \in RawObjects : FallbackAnalysisSchema(object)}

\* value || fallback, for a string: the empty string is falsy.
OrString(value, fallback) == IF value = "" THEN fallback ELSE value

\* value || fallback, for an array: every array is truthy.
OrArray(value, fallback) == value

\* "Transform to match expected type, filling in defaults where needed"
analysisResult(object, repoData) ==
  [object EXCEPT
     !.strengths = OrArray(@, <<"Has <n> stars on GitHub">>),
     !.considerations = OrArray(@, <<"Manual review recommended for detailed analysis">>),
     !.useCase = OrString(@, "Development tool in <language>"),
     !.targetAudience = OrString(@, "Developers and <language> enthusiasts")]

\* What the language model does in one analyzeRepository call: the outcome
\* of the first generateObject ("ok", "invalid" for AI_NoObjectGeneratedError
\* or AI_TypeValidationError, "error" for any other error), of the second
\* one ("ok" or "fail") with the object it returns, and of the web search.
LLMBehaviour(primary, retry, web, strict, relaxed) ==
  [primary |-> primary, retry |-> retry, web |-> web, strict |-> strict,
   relaxed |-> relaxed]

\* The behaviours of the language model behind the requests: one for each
\* way out of analyzeRepository.
LLMBehaviours ==
  { LLMBehaviour("ok", "ok", "ok", PrimaryObject, RelaxedObject),
    LLMBehaviour("invalid", "ok", "error", PrimaryObject, RelaxedObject),
    LLMBehaviour("invalid", "fail", "ok", PrimaryObject, RelaxedObject),
    LLMBehaviour("error", "ok", "ok", PrimaryObject, RelaxedObject) }

\* Every behaviour of the language model in one analyzeRepository call,
\* with every object each schema lets through.
LLMOutcomes ==
  { LLMBehaviour("ok", "ok", web, object, RelaxedObject) :
      web \in {"ok", "empty", "error"}, object \in StrictObjects }
  \cup { LLMBehaviour("invalid", "ok", web, PrimaryObject, object) :
           web \in {"ok", "empty", "error"}, object \in RelaxedObjects }
  \cup { LLMBehaviour(primary, "fail", "ok", PrimaryObject, RelaxedObject) :
           primary \in {"invalid", "error"} }

\* The recovery attempted after an error of any name.
RecoversFromAny(outcome) == outcome # "ok"

\* error.name === 'AI_NoObjectGeneratedError' || error.name === 'AI_TypeValidationError'
RecoversFrom(outcome) == outcome = "invalid"

AIError == MkError(<<"Failed after 3 attempts. Last error: fetch failed">>, Null)

\* AIAnalysisService.analyzeRepository: thrown tells whether the call throws,
\* value is the analysis it returns, layer the layer that produced it and
\* attempts the number of core generateObject calls made.
analyzeRepository(repoData, llm) ==
  IF llm.primary = "ok"
  THEN [thrown |-> FALSE, attempts |-> 1, layer |-> "primary",
        value |-> enhanceWithWebSearch(llm.strict, llm.web)]
  ELSE IF RecoversFrom(llm.primary)
  THEN IF llm.retry = "ok"
       THEN [thrown |-> FALSE, attempts |-> 2, layer |-> "relaxed",
             value |-> enhanceWithWebSearch(analysisResult(llm.relaxed, repoData), llm.web)]
       ELSE [thrown |-> FALSE, attempts |-> 2, layer |-> "synth",
             value |-> createFallbackAnalysis(repoData)]
  ELSE [thrown |-> TRUE, attempts |-> 1, layer |-> "thrown", value |-> PrimaryObject]

\* ------------------------------------------------------------------ state
VARIABLES
  repositories,    \* the rows of table repositories
  aiAnalyses,      \* the rows of table ai_analyses
  nextRepoId,      \* the serial of repositories.id
  nextAnalysisId,  \* the serial of ai_analyses.id
  now,             \* Date.now(), in days
  github,          \* what GitHub holds for the requested repository
  proc,            \* per request handler: position in fetchAndAnalyze and its locals
  calls,           \* resolve calls started so far
  faults,          \* store operations that have failed so far
  mode,            \* "seq": requests arrive one after the other, over days;
                   \* "race": they overlap; "fault": the store may fail
  analysisStatus,  \* the handler of GET /api/analysis-status: position and locals
  aiService,       \* one AIAnalysisService.analyzeRepository call: position and locals
  poller,          \* the AnalysisInProgress component: its state and its timers
  listing,         \* GET /api/repositories: the request and its response
  topicsCall,      \* one GitHubService.getRepositoryTopics call
  enhanceCall,     \* one AIAnalysisService.enhanceWithWebSearch call
  repoInfoCall     \* one getRepositoryInfo call: position and locals

store == <<repositories, aiAnalyses, nextRepoId, nextAnalysisId>>
services == <<aiService, poller>>
functions == <<listing, topicsCall, enhanceCall, repoInfoCall>>
env == <<github, mode, analysisStatus, services, functions>>
vars == <<repositories, aiAnalyses, nextRepoId, nextAnalysisId, now, github,
          proc, calls, faults, mode, analysisStatus, aiService, poller,
          listing, topicsCall, enhanceCall, repoInfoCall>>

\* `${owner}/${repoName}`
fullName == <<ReqOwner, ReqRepo>>

\* A missing row (findFirst answers undefined): rows have ids from 1.
NoRepo ==
  [id |-> 0, fullName |-> <<Null, Null>>, name |-> Null, primaryLanguage |-> Null,
   stars |-> 0, createdAt |-> 0, updatedAt |-> 0]

NoAnalysis ==
  [id |-> 0, repositoryId |-> 0, alternatives |-> <<>>, category |-> Null,
   summary |-> Null, createdAt |-> 0, updatedAt |-> 0]

NoError == MkError(<<>>, Null)

\* db.query.<table>.findFirst: any one of the matching rows (no ORDER BY),
\* undefined when there is none.
findFirst(rows, none) == IF rows = {} THEN {none} ELSE rows

RepositoriesByFullName(name) == {r \in repositories : r.fullName = name}
RepositoriesById(id) == {r \in repositories : r.id = id}
AnalysesByRepositoryId(id) == {a \in aiAnalyses : a.repositoryId = id}

\* The columns both upserts and the forced update copy from the provider.
WithProviderColumns(row, githubData) ==
  [row EXCEPT !.primaryLanguage = githubData.language,
              !.stars = githubData.stargazers_count,
              !.updatedAt = now]

NewRepository(name, githubData) ==
  [id |-> nextRepoId, fullName |-> name, name |-> githubData.name,
   primaryLanguage |-> githubData.language, stars |-> githubData.stargazers_count,
   createdAt |-> now, updatedAt |-> now]

\* insert(...).values(...) with no conflict clause on a table without the
\* unique index: a second row for the same full_name.
UpsertWithoutConflictTarget(name, githubData) ==
  repositories \cup {NewRepository(name, githubData)}

\* db.insert(repositories).values(...).onConflictDoUpdate({target: fullName}):
\* the table after the statement (full_name is unique).
UpsertRepository(name, githubData) ==
  IF RepositoriesByFullName(name) = {}
  THEN repositories \cup {NewRepository(name, githubData)}
  ELSE {IF r.fullName = name THEN WithProviderColumns(r, githubData) ELSE r :
          r \in repositories}

\* .returning({ id }): the id of the row the upsert wrote.
UpsertedId(name) ==
  IF RepositoriesByFullName(name) = {} THEN nextRepoId
  ELSE (CHOOSE r \in RepositoriesByFullName(name) : TRUE).id

\* db.update(repositories).set(...).where(eq(id, ...))
UpdateRepository(id, githubData) ==
  {IF r.id = id THEN WithProviderColumns(r, githubData) ELSE r : r \in repositories}

\* ai_analyses has a primary key and a foreign key and no unique constraint
\* on repository_id: an insert never fails with SQLSTATE 23505.
AnalysisInsertConflicts(repositoryId) == FALSE

\* The columns of an analysis row written on the success path (summary
\* stands for summary, strengths, considerations, useCase, targetAudience
\* and analysisContent, which are always written together).
NewAnalysis(repositoryId, aiAnalysis) ==
  [id |-> nextAnalysisId, repositoryId |-> repositoryId,
   alternatives |-> aiAnalysis.alternatives, category |-> aiAnalysis.category,
   summary |-> aiAnalysis.summary, createdAt |-> now, updatedAt |-> now]

\* db.update(aiAnalyses).set({..., updatedAt: new Date()}).where(eq(id, ...))
UpdateAnalysis(id, aiAnalysis) ==
  {IF a.id = id
   THEN [a EXCEPT !.alternatives = aiAnalysis.alternatives,
                  !.category = aiAnalysis.category,
                  !.summary = aiAnalysis.summary,
                  !.updatedAt = now]
   ELSE a : a \in aiAnalyses}

\* A fallback analysis of category alone, with no alternative to offer.
fallbackAnalysisBare(repoRecord) ==
  [alternatives |-> <<>>,
   category |-> IF repoRecord.primaryLanguage = Null THEN "Software"
                ELSE repoRecord.primaryLanguage,
   summary |-> Null]

\* The fallback analysis fetchAndAnalyze builds when analyzeRepository or
\* the write of its result throws.
fallbackAnalysis(repoRecord) ==
  [alternatives |-> << [name |-> "Search GitHub",
                        url |-> <<"https://", "github.com", "/search?q=">>
                                  \o encodeURIComponent(
                                       (IF repoRecord.primaryLanguage = Null THEN <<>>
                                        ELSE <<repoRecord.primaryLanguage>>)
                                       \o <<" ", repoRecord.name>>),
                        reasoning |-> "Manual search for alternatives"] >>,
   category |-> IF repoRecord.primaryLanguage = Null THEN "Software"
                ELSE repoRecord.primaryLanguage,
   summary |-> Null]

\* db.update(aiAnalyses).set(fallbackAnalysis).where(eq(id, ...)): only
\* alternatives, category and analysisContent are set.
UpdateAnalysisFallback(id, fallback) ==
  {IF a.id = id
   THEN [a EXCEPT !.alternatives = fallback.alternatives,
                  !.category = fallback.category]
   ELSE a : a \in aiAnalyses}

\* The GitHubRepo object fetchAndAnalyze builds from the repository record.
githubRepoData(repoRecord) ==
  [name |-> repoRecord.name, language |-> repoRecord.primaryLanguage,
   stargazers_count |-> repoRecord.stars]

\* ---------------------------------------------------------- the processes
Busy(p) == proc[p].pc \notin {"idle", "done"}

\* What a call remembers of the call before it.
NoCall == [forceRefresh |-> FALSE, outcome |-> "none", genCalls |-> 0]

Summary(me) == [forceRefresh |-> me.forceRefresh, outcome |-> me.outcome,
                genCalls |-> me.genCalls]

\* The locals of a handler that has not been called, and the history of
\* its call: the analysis row first read, whether the first read found no
\* repository, the statuses the provider answered, the numbers of
\* fetchRepository calls, analyzeRepository calls and store writes, the
\* response status behind a provider error thrown to the caller, the
\* layer that produced the analysis, the analysis values last written and
\* the row they went to, the number of the call, whether another call was
\* running when it started, and what the call before it
\* was (when exactly one call had completed and none was running).
IdleProc ==
  [pc |-> "idle", forceRefresh |-> FALSE, repoRecord |-> NoRepo,
   analysisRecord |-> NoAnalysis, repoId |-> 0,
   outcome |-> "none", error |-> NoError, cause |-> 0,
   cached |-> NoAnalysis, firstTime |-> FALSE, statuses |-> {},
   provCalls |-> 0, genCalls |-> 0, writes |-> 0, layer |-> "none",
   wrote |-> NoAnalysis, callNo |-> 0, overlap |-> FALSE, before |-> NoCall]

\* return { repoData: repoRecord, analysisData: analysisRecord }
Return(me) == [me EXCEPT !.pc = "done", !.outcome = "returned"]

\* throw error (through the outer catch of fetchAndAnalyze, to the handler)
Throw(me, error) == [me EXCEPT !.pc = "done", !.outcome = "threw", !.error = error]

\* throw of the error fetchRepository raised for response `status`
ThrowFetchError(me, status) ==
  [Throw(me, FetchError(status, ReqOwner, ReqRepo)) EXCEPT !.cause = status]

\* The age test with the divisor of hours (1000 * 60 * 60) in place of the
\* divisor of days.
hoursSinceAnalysis(analysis) == (now - analysis.createdAt) * 24

\* (Date.now() - new Date(analysisRecord.createdAt).getTime()) / (1000 * 60 * 60 * 24)
daysSinceAnalysis(analysis) == now - analysis.createdAt

\* "If we have both repo and analysis, return them (unless they're old or
\* we're forcing refresh)"
CacheHit(me, analysis) ==
  /\ me.repoRecord # NoRepo
  /\ analysis # NoAnalysis
  /\ ~me.forceRefresh
  /\ daysSinceAnalysis(analysis) < CACHE_DAYS

\* "Generate AI analysis if we don't have one or it's outdated or we're
\* forcing refresh"
NeedsAnalysis(me) ==
  \/ me.analysisRecord = NoAnalysis
  \/ me.forceRefresh
  \/ daysSinceAnalysis(me.analysisRecord) >= CACHE_DAYS

\* The repository data are refreshed on every call that holds a record.
RefreshesAlways(me) == TRUE

\* "If we have the repository but are forcing refresh, update repository
\* data": the else-if of the direct fetch.
RefreshesRepository(me) == me.forceRefresh

\* Where fetchAndAnalyze goes once it holds a repository record.
AfterMaterialize(me) ==
  IF NeedsAnalysis(me) THEN [me EXCEPT !.pc = "analyze"] ELSE Return(me)

\* The outcomes of one store operation: it may fail while the budget of
\* faults lasts.
StoreOutcomes == IF faults < MaxStoreFaults THEN {TRUE, FALSE} ELSE {TRUE}

Fault(ok) == faults' = IF ok THEN faults ELSE faults + 1

\* The step of handler p to locals `next`.
Goto(p, next) == proc' = [proc EXCEPT ![p] = next]

\* The environment of the requests: the spelling GitHub gives the owner,
\* and the language of the repository.
Environment ==
  \E owner \in {ReqOwner, CanonOwner}, language \in Languages :
    github = [full_name |-> <<owner, ReqRepo>>, language |-> language]

EmptyStore ==
  /\ repositories = {}
  /\ aiAnalyses = {}
  /\ nextRepoId = 1
  /\ nextAnalysisId = 1

\* The response of GET /api/analysis-status before any request: none.
NoResponse == [status |-> 0, exists |-> FALSE, hasAnalysis |-> FALSE,
               isAnalyzing |-> FALSE]

\* The status handler before its first request, and the history of its
\* request: the number of resolve calls started and whether a resolve call
\* was running when the request arrived.
IdleStatus ==
  [pc |-> "idle", repoRecord |-> NoRepo, response |-> NoResponse,
   calls |-> 0, quiet |-> TRUE]

\* analyzeRepository before its call: no generateObject call made, nothing
\* returned.
IdleService ==
  [pc |-> "idle", repoData |-> githubRepoData(NoRepo),
   llm |-> LLMBehaviour("ok", "ok", "ok", PrimaryObject, RelaxedObject),
   generations |-> <<>>,
   result |-> [thrown |-> FALSE, attempts |-> 0, layer |-> "none",
               value |-> PrimaryObject]]

\* clearInterval: the due time of a timer that is not set.
Cleared == 0

\* The AnalysisInProgress component before it is mounted: its state
\* (pollCount, pollInterval, in seconds), the pollInterval its effect has
\* captured, the time, the due times of currentPollInterval and of
\* intervalUpdater and which of them runs first when both are due, the time
\* of the last poll and the delay before it, whether the analysis exists,
\* the onAnalysisComplete callbacks set, the renders of the parent, and how
\* the engine re-arms a repeating timer.
Unmounted ==
  [pc |-> "unmounted", engine |-> "html", pollCount |-> 0, pollInterval |-> 2,
   captured |-> 2, time |-> 0, pollDue |-> Cleared, updaterDue |-> Cleared,
   first |-> "poll", lastPoll |-> 0, delay |-> 0, ready |-> FALSE,
   callbacks |-> 0, renders |-> 0]

\* A function that has not been called.
NotCalled == [pc |-> "idle"]

\* The other handlers and functions before their call.
Uncalled ==
  /\ listing = NotCalled
  /\ topicsCall = NotCalled
  /\ enhanceCall = NotCalled
  /\ repoInfoCall = NotCalled

Begin(m, failed) ==
  /\ Uncalled
  /\ analysisStatus = IdleStatus
  /\ aiService = IdleService
  /\ poller = Unmounted
  /\ EmptyStore
  /\ Environment
  /\ now = 0
  /\ proc = [p \in Procs |-> IdleProc]
  /\ calls = 0
  /\ faults = failed
  /\ mode = m

\* Requests that arrive one after the other, over days; the store works.
Init == Begin("seq", MaxStoreFaults)

\* Requests that overlap, within one day; the store works.
InitRace == Begin("race", MaxStoreFaults)

\* Requests that arrive one after the other, over days; store
\* operations may fail.
InitFault == Begin("fault", 0)

\* The calls one behaviour starts.
Budget ==
  CASE mode = "seq" -> MaxCalls
    [] mode = "race" -> MaxRaceCalls
    [] mode = "info" -> MaxInfoResolves
    [] OTHER -> MaxFaultCalls

\* The days between a call and the call before it.
ElapsedDays ==
  IF calls = 0 THEN {0}
  ELSE IF mode = "seq" THEN {0, 1, CACHE_DAYS, CACHE_DAYS + 1}
  ELSE IF mode = "fault" THEN {0, CACHE_DAYS + 1}
  ELSE {0}

\* What fetchRepository returns for a 200 response.
fetchRepository == GitHubData(github.full_name, github.language, now)

\* A request arrives: fetchAndAnalyze(owner, repoName, forceRefresh) starts.
\* Handlers are taken in order, so handler p runs only beside handlers
\* 1..p-1; the responses of the handlers that have completed are gone.
\* The clock moves only while no call is running.
Start(p) ==
  LET running == {q \in Procs : Busy(q)}
      completed == {q \in Procs : proc[q].pc = "done"}
  IN
  /\ calls < Budget
  /\ ~Busy(p)
  /\ \A q \in Procs : q < p => Busy(q)
  /\ mode # "race" => running = {}
  /\ \E forceRefresh \in BOOLEAN, days \in ElapsedDays :
       /\ running # {} => days = 0
       /\ now + days <= MaxNow
       /\ now' = now + days
       /\ proc' = [q \in Procs |->
                  IF q = p
                  THEN [IdleProc EXCEPT
                          !.pc = "readRepo",
                          !.forceRefresh = forceRefresh,
                          !.callNo = calls + 1,
                          !.overlap = (running # {}),
                          !.before = IF running = {} /\ Cardinality(completed) = 1
                                     THEN Summary(proc[CHOOSE q2 \in completed : TRUE])
                                     ELSE NoCall]
                  ELSE IF Busy(q) THEN proc[q] ELSE IdleProc]
  /\ calls' = calls + 1
  /\ UNCHANGED <<store, env, faults>>

\* let repoRecord = await db.query.repositories.findFirst(fullName)
ReadRepo(p) ==
  LET me == proc[p] IN
  /\ me.pc = "readRepo"
  /\ \E ok \in StoreOutcomes :
       /\ Fault(ok)
       /\ IF ok
          THEN \E r \in findFirst(RepositoriesByFullName(fullName), NoRepo) :
                 Goto(p, [me EXCEPT !.repoRecord = r,
                                    !.firstTime = (r = NoRepo),
                                    !.pc = IF r = NoRepo THEN "gri_read"
                                           ELSE "readAnalysis"])
          ELSE Goto(p, Throw(me, StoreError))
  /\ UNCHANGED <<store, now, env, calls>>

\* analysisRecord = await db.query.aiAnalyses.findFirst(repositoryId), then
\* the cache test.
ReadAnalysis(p) ==
  LET me == proc[p] IN
  /\ me.pc = "readAnalysis"
  /\ \E ok \in StoreOutcomes :
       /\ Fault(ok)
       /\ IF ok
          THEN \E a \in findFirst(AnalysesByRepositoryId(me.repoRecord.id), NoAnalysis) :
                 LET read == [me EXCEPT !.analysisRecord = a, !.cached = a] IN
                 Goto(p, IF CacheHit(read, a) THEN Return(read)
                         ELSE IF RefreshesRepository(read) THEN [read EXCEPT !.pc = "refresh"]
                         ELSE AfterMaterialize(read))
          ELSE Goto(p, Throw(me, StoreError))
  /\ UNCHANGED <<store, now, env, calls>>

\* One more fetchRepository call by handler p, answered with `status`.
Fetched(me, status) ==
  [me EXCEPT !.provCalls = @ + 1, !.statuses = @ \cup {status}]

\* getRepositoryInfo: existingRepo = await db.query.repositories.findFirst(fullName).
\* A repository found is returned with source 'database'; a failure of the
\* read is thrown by the utility and caught by fetchAndAnalyze.
GriRead(p) ==
  LET me == proc[p] IN
  /\ me.pc = "gri_read"
  /\ \E ok \in StoreOutcomes :
       /\ Fault(ok)
       /\ IF ok
          THEN Goto(p, [me EXCEPT !.pc = IF RepositoriesByFullName(fullName) = {}
                                         THEN "gri_fetch" ELSE "reread"])
          ELSE Goto(p, [me EXCEPT !.pc = "direct"])
  /\ UNCHANGED <<store, now, env, calls>>

\* getRepositoryInfo: fetchRepository, then the upsert under the provider's
\* full_name.  A provider failure is rethrown and caught by fetchAndAnalyze
\* (console.warn); a failure of the upsert is swallowed by the utility.
GriFetch(p) ==
  LET me == proc[p] IN
  /\ me.pc = "gri_fetch"
  /\ \E status \in ProviderStatuses, ok \in StoreOutcomes :
       IF status # 200
       THEN /\ ok
            /\ Goto(p, [Fetched(me, status) EXCEPT !.pc = "direct"])
            /\ UNCHANGED <<store, faults>>
       ELSE /\ Fault(ok)
            /\ IF ok
               THEN /\ repositories' = UpsertRepository(fetchRepository.full_name, fetchRepository)
                    /\ nextRepoId' = IF RepositoriesByFullName(fetchRepository.full_name) = {}
                                     THEN nextRepoId + 1 ELSE nextRepoId
                    /\ Goto(p, [Fetched(me, status) EXCEPT !.pc = "reread",
                                                           !.writes = @ + 1])
               ELSE /\ UNCHANGED <<repositories, nextRepoId>>
                    /\ Goto(p, [Fetched(me, status) EXCEPT !.pc = "reread"])
            /\ UNCHANGED <<aiAnalyses, nextAnalysisId>>
  /\ UNCHANGED <<now, env, calls>>

\* "The utility already saved it to the database, so fetch it":
\* repoRecord = findFirst(fullName), inside the try around the utility.
Reread(p) ==
  LET me == proc[p] IN
  /\ me.pc = "reread"
  /\ \E ok \in StoreOutcomes :
       /\ Fault(ok)
       /\ IF ok
          THEN \E r \in findFirst(RepositoriesByFullName(fullName), NoRepo) :
                 LET read == [me EXCEPT !.repoRecord = r] IN
                 Goto(p, IF r = NoRepo THEN [read EXCEPT !.pc = "direct"]
                         ELSE IF RefreshesRepository(read) THEN [read EXCEPT !.pc = "refresh"]
                         ELSE AfterMaterialize(read))
          ELSE Goto(p, [me EXCEPT !.pc = "direct"])
  /\ UNCHANGED <<store, now, env, calls>>

\* "Fallback: Fetching GitHub data directly": fetchRepository, whose error
\* goes to the caller, then the upsert under fullName, returning the id.
Direct(p) ==
  LET me == proc[p] IN
  /\ me.pc = "direct"
  /\ \E status \in ProviderStatuses, ok \in StoreOutcomes :
       IF status # 200
       THEN /\ ok
            /\ Goto(p, ThrowFetchError(Fetched(me, status), status))
            /\ UNCHANGED <<store, faults>>
       ELSE /\ Fault(ok)
            /\ IF ok
               THEN /\ repositories' = UpsertRepository(fullName, fetchRepository)
                    /\ nextRepoId' = IF RepositoriesByFullName(fullName) = {}
                                     THEN nextRepoId + 1 ELSE nextRepoId
                    /\ Goto(p, [Fetched(me, status) EXCEPT !.pc = "readById",
                                                           !.repoId = UpsertedId(fullName),
                                                           !.writes = @ + 1])
               ELSE /\ UNCHANGED <<repositories, nextRepoId>>
                    /\ Goto(p, [Fetched(me, status) EXCEPT !.pc = "readByName"])
            /\ UNCHANGED <<aiAnalyses, nextAnalysisId>>
  /\ UNCHANGED <<now, env, calls>>

\* repoRecord = findFirst(id = repoId), inside the try around the upsert.
ReadById(p) ==
  LET me == proc[p] IN
  /\ me.pc = "readById"
  /\ \E ok \in StoreOutcomes :
       /\ Fault(ok)
       /\ IF ok
          THEN \E r \in findFirst(RepositoriesById(me.repoId), NoRepo) :
                 Goto(p, AfterMaterialize([me EXCEPT !.repoRecord = r]))
          ELSE Goto(p, [me EXCEPT !.pc = "readByName"])
  /\ UNCHANGED <<store, now, env, calls>>

\* catch of the upsert: "Fallback: try to fetch existing record", and
\* 'Failed to create or retrieve repository' when there is none.
ReadByName(p) ==
  LET me == proc[p] IN
  /\ me.pc = "readByName"
  /\ \E ok \in StoreOutcomes :
       /\ Fault(ok)
       /\ IF ok
          THEN \E r \in findFirst(RepositoriesByFullName(fullName), NoRepo) :
                 Goto(p, IF r = NoRepo
                         THEN Throw(me, CreateFailedError(ReqOwner, ReqRepo))
                         ELSE AfterMaterialize([me EXCEPT !.repoRecord = r]))
          ELSE Goto(p, Throw(me, StoreError))
  /\ UNCHANGED <<store, now, env, calls>>

\* "If we have the repository but are forcing refresh, update repository
\* data": fetchRepository and the update by id, in a try whose catch goes on
\* with the existing record.
Refresh(p) ==
  LET me == proc[p] IN
  /\ me.pc = "refresh"
  /\ \E status \in ProviderStatuses, ok \in StoreOutcomes :
       IF status # 200
       THEN /\ ok
            /\ Goto(p, AfterMaterialize(Fetched(me, status)))
            /\ UNCHANGED <<store, faults>>
       ELSE /\ Fault(ok)
            /\ IF ok
               THEN /\ repositories' = UpdateRepository(me.repoRecord.id, fetchRepository)
                    /\ Goto(p, [Fetched(me, status) EXCEPT !.pc = "readUpdated",
                                                           !.writes = @ + 1])
               ELSE /\ UNCHANGED repositories
                    /\ Goto(p, AfterMaterialize(Fetched(me, status)))
            /\ UNCHANGED <<aiAnalyses, nextRepoId, nextAnalysisId>>
  /\ UNCHANGED <<now, env, calls>>

\* "Refresh the record": updated = findFirst(id); if (updated) repoRecord = updated
ReadUpdated(p) ==
  LET me == proc[p] IN
  /\ me.pc = "readUpdated"
  /\ \E ok \in StoreOutcomes :
       /\ Fault(ok)
       /\ IF ok
          THEN \E r \in findFirst(RepositoriesById(me.repoRecord.id), NoRepo) :
                 Goto(p, AfterMaterialize(IF r = NoRepo THEN me
                                          ELSE [me EXCEPT !.repoRecord = r]))
          ELSE Goto(p, AfterMaterialize(me))
  /\ UNCHANGED <<store, now, env, calls>>

\* The row with the given id after a write.
RowById(rows, id) == CHOOSE a \in rows : a.id = id

\* The catch of the generation: the fallback analysis is written over the
\* row read at the start, or inserted when there was none.  A failed update
\* goes to the caller; a failed insert is logged and the call goes on.
WriteFallbackAnalysis(p, me, ok) ==
  LET fallback == fallbackAnalysis(me.repoRecord) IN
  /\ Fault(ok)
  /\ IF me.analysisRecord # NoAnalysis
     THEN IF ok
          THEN /\ aiAnalyses' = UpdateAnalysisFallback(me.analysisRecord.id, fallback)
               /\ Goto(p, [me EXCEPT !.pc = "readFallback", !.writes = @ + 1,
                                     !.wrote = RowById(aiAnalyses', me.analysisRecord.id)])
               /\ UNCHANGED nextAnalysisId
          ELSE /\ Goto(p, Throw(me, StoreError))
               /\ UNCHANGED <<aiAnalyses, nextAnalysisId>>
     ELSE IF ok
          THEN /\ aiAnalyses' = aiAnalyses \cup {NewAnalysis(me.repoRecord.id, fallback)}
               /\ nextAnalysisId' = nextAnalysisId + 1
               /\ Goto(p, [me EXCEPT !.pc = "readFallback", !.writes = @ + 1,
                                     !.wrote = NewAnalysis(me.repoRecord.id, fallback)])
          ELSE /\ Goto(p, [me EXCEPT !.pc = "readFallback"])
               /\ UNCHANGED <<aiAnalyses, nextAnalysisId>>
  /\ UNCHANGED <<repositories, nextRepoId>>

\* aiService.analyzeRepository(githubRepoData), then the write of its result:
\* an update of the row read at the start, or an insert when there was none
\* (with the update of the winner's row when the insert fails with 23505).
\* An error of the generator or of the write is caught: the fallback
\* analysis is written instead.
Analyze(p) ==
  LET me == proc[p] IN
  /\ me.pc = "analyze"
  /\ \E llm \in LLMBehaviours, ok \in StoreOutcomes :
       LET aiAnalysis == analyzeRepository(githubRepoData(me.repoRecord), llm)
           called == [me EXCEPT !.genCalls = @ + 1, !.layer = aiAnalysis.layer]
           id == me.repoRecord.id
       IN
       IF aiAnalysis.thrown
       THEN WriteFallbackAnalysis(p, called, ok)
       ELSE /\ Fault(ok)
            /\ IF ~ok
               THEN /\ Goto(p, [called EXCEPT !.pc = "writeFallback"])
                    /\ UNCHANGED <<aiAnalyses, nextAnalysisId>>
               ELSE IF me.analysisRecord # NoAnalysis
               THEN /\ aiAnalyses' = UpdateAnalysis(me.analysisRecord.id, aiAnalysis.value)
                    /\ Goto(p, [called EXCEPT !.pc = "readFinal", !.writes = @ + 1,
                                  !.wrote = RowById(aiAnalyses', me.analysisRecord.id)])
                    /\ UNCHANGED nextAnalysisId
               ELSE IF AnalysisInsertConflicts(id)
               THEN /\ aiAnalyses' = UpdateAnalysis(
                           (CHOOSE a \in AnalysesByRepositoryId(id) : TRUE).id,
                           aiAnalysis.value)
                    /\ Goto(p, [called EXCEPT !.pc = "readFinal", !.writes = @ + 1])
                    /\ UNCHANGED nextAnalysisId
               ELSE /\ aiAnalyses' = aiAnalyses \cup {NewAnalysis(id, aiAnalysis.value)}
                    /\ nextAnalysisId' = nextAnalysisId + 1
                    /\ Goto(p, [called EXCEPT !.pc = "readFinal", !.writes = @ + 1,
                                  !.wrote = NewAnalysis(id, aiAnalysis.value)])
            /\ UNCHANGED <<repositories, nextRepoId>>
  /\ UNCHANGED <<now, env, calls>>

\* The catch of the generation, entered from a failed write or a failed
\* final read of the success path.
WriteFallback(p) ==
  LET me == proc[p] IN
  /\ me.pc = "writeFallback"
  /\ \E ok \in StoreOutcomes : WriteFallbackAnalysis(p, me, ok)
  /\ UNCHANGED <<now, env, calls>>

\* "Fetch the final analysis record": findFirst(repositoryId), inside the try.
ReadFinal(p) ==
  LET me == proc[p] IN
  /\ me.pc = "readFinal"
  /\ \E ok \in StoreOutcomes :
       /\ Fault(ok)
       /\ IF ok
          THEN \E a \in findFirst(AnalysesByRepositoryId(me.repoRecord.id), NoAnalysis) :
                 Goto(p, Return([me EXCEPT !.analysisRecord = a]))
          ELSE Goto(p, [me EXCEPT !.pc = "writeFallback"])
  /\ UNCHANGED <<store, now, env, calls>>

\* The final read of the catch: findFirst(repositoryId), then the return.
ReadFallback(p) ==
  LET me == proc[p] IN
  /\ me.pc = "readFallback"
  /\ \E ok \in StoreOutcomes :
       /\ Fault(ok)
       /\ IF ok
          THEN \E a \in findFirst(AnalysesByRepositoryId(me.repoRecord.id), NoAnalysis) :
                 Goto(p, Return([me EXCEPT !.analysisRecord = a]))
          ELSE Goto(p, Throw(me, StoreError))
  /\ UNCHANGED <<store, now, env, calls>>

\* The steps of fetchAndAnalyze while the store works.
Next ==
  \/ \E p \in Procs : Start(p)
  \/ \E p \in Procs : ReadRepo(p)
  \/ \E p \in Procs : ReadAnalysis(p)
  \/ \E p \in Procs : GriRead(p)
  \/ \E p \in Procs : GriFetch(p)
  \/ \E p \in Procs : Reread(p)
  \/ \E p \in Procs : Direct(p)
  \/ \E p \in Procs : ReadById(p)
  \/ \E p \in Procs : Refresh(p)
  \/ \E p \in Procs : ReadUpdated(p)
  \/ \E p \in Procs : Analyze(p)
  \/ \E p \in Procs : ReadFinal(p)
  \/ \E p \in Procs : ReadFallback(p)

Spec == Init /\ [][Next]_vars

SpecRace == InitRace /\ [][Next]_vars

\* With a store that fails, the catch blocks of the store operations run too.
NextFault ==
  \/ Next
  \/ \E p \in Procs : ReadByName(p)
  \/ \E p \in Procs : WriteFallback(p)

SpecFault == InitFault /\ [][NextFault]_vars

TypeOK ==
  /\ now \in 0..MaxNow
  /\ calls \in 0..Budget
  /\ faults \in 0..MaxStoreFaults
  /\ \A r \in repositories : r.id \in 1..(nextRepoId - 1)
  /\ \A a \in aiAnalyses : a.id \in 1..(nextAnalysisId - 1)

\* ------------------------------------------------------------------ claims
Done(p) == proc[p].pc = "done"
Returned(p) == Done(p) /\ proc[p].outcome = "returned"
Threw(p) == Done(p) /\ proc[p].outcome = "threw"

\* The call of handler p found, at its start, a repository record and an
\* analysis record less than 7 days old, and did not force a refresh.
FreshUnforced(p) ==
  /\ Done(p)
  /\ ~proc[p].forceRefresh
  /\ proc[p].cached # NoAnalysis
  /\ now - proc[p].cached.createdAt < CACHE_DAYS

\* C1: cache-hit purity.  A call with forceRefresh = false that finds a
\* repository record and an analysis record less than 7 days old returns
\* exactly those stored records (they are still the rows of the store) and
\* makes no provider call, no generator call and no store write.
C1_CacheHitPurity ==
  \A p \in Procs :
    FreshUnforced(p) =>
      /\ Returned(p)
      /\ proc[p].analysisRecord = proc[p].cached
      /\ proc[p].analysisRecord \in aiAnalyses
      /\ proc[p].repoRecord \in repositories
      /\ proc[p].repoRecord.id = proc[p].cached.repositoryId
      /\ proc[p].provCalls = 0
      /\ proc[p].genCalls = 0
      /\ proc[p].writes = 0

\* A cache hit on a record that is at least a day old.
C1_Witness ==
  \E p \in Procs :
    /\ FreshUnforced(p)
    /\ Returned(p)
    /\ now - proc[p].cached.createdAt >= 1

\* The rows of the requested key, and the analysis rows of those rows.
KeyRows == RepositoriesByFullName(fullName)
KeyAnalyses == {a \in aiAnalyses : \E r \in KeyRows : a.repositoryId = r.id}

\* NProcs calls for a key the store had never seen ran concurrently, the
\* provider answered each of them with success, and all have completed.
RaceCompleted ==
  \A p \in Procs :
    /\ Done(p)
    /\ proc[p].callNo = p
    /\ p > 1 => proc[p].overlap
    /\ proc[p].statuses \subseteq {200}

\* C2: after concurrent calls for the same previously unseen key with a
\* succeeding provider have all completed, the store holds exactly one
\* repository row whose fullName is that key (at no time does it hold two),
\* and no call fails with a uniqueness-constraint (23505) error.
C2_OneRepositoryRow ==
  /\ Cardinality(KeyRows) <= 1
  /\ \A p \in Procs : Threw(p) => proc[p].error.code # "23505"
  /\ RaceCompleted =>
       /\ Cardinality(KeyRows) = 1
       /\ \A p \in Procs : Returned(p) /\ proc[p].repoRecord.fullName = fullName

\* Two calls that both found no repository at their start have completed
\* the race.
C2_Witness ==
  /\ RaceCompleted
  /\ \A p \in Procs : proc[p].firstTime /\ proc[p].provCalls >= 1 /\ Returned(p)

\* C3: after concurrent calls for the same previously unseen key have all
\* completed there is exactly one analysis row for that repository.
C3_OneAnalysisRow ==
  RaceCompleted => Cardinality(KeyAnalyses) = 1

\* The call of handler p found, at its start, an analysis record older than
\* 7 days (created and last updated more than 7 days ago), and did not
\* force a refresh.
StaleUnforced(p) ==
  /\ Done(p)
  /\ ~proc[p].forceRefresh
  /\ proc[p].cached # NoAnalysis
  /\ now - proc[p].cached.createdAt > CACHE_DAYS
  /\ now - proc[p].cached.updatedAt > CACHE_DAYS

\* C4: a call with forceRefresh = false on an analysis record older than
\* 7 days invokes the generator exactly once and updates the timestamp of
\* the record.
C4_StaleRegenerated ==
  \A p \in Procs :
    StaleUnforced(p) =>
      /\ proc[p].genCalls = 1
      /\ \E a \in aiAnalyses : a.id = proc[p].cached.id /\ a.updatedAt = now

\* The call of handler p is the second of two forced calls made one after
\* the other, and both returned.
SecondForced(p) ==
  /\ Returned(p)
  /\ proc[p].forceRefresh
  /\ ~proc[p].overlap
  /\ proc[p].before.forceRefresh
  /\ proc[p].before.outcome = "returned"

\* C5: two forced calls made one after the other invoke the generator twice
\* and leave exactly one repository row and exactly one analysis row for
\* the key.
C5_ForcedTwice ==
  \A p \in Procs :
    SecondForced(p) =>
      /\ proc[p].before.genCalls + proc[p].genCalls = 2
      /\ Cardinality(KeyRows) = 1
      /\ Cardinality(KeyAnalyses) = 1

\* C6: whenever the repository has been materialized, the call returns a
\* non-null analysis record or fails with an error that is not the
\* generator's.
C6_GeneratorFailureAbsorbed ==
  \A p \in Procs :
    Done(p) /\ proc[p].repoRecord # NoRepo =>
      /\ Returned(p) => proc[p].analysisRecord # NoAnalysis
      /\ Threw(p) => proc[p].error # AIError

\* The generator of the call of handler p failed validation twice and
\* synthesized its result.
Synthesized(p) == Done(p) /\ proc[p].layer = "synth"

\* The entry createFallbackAnalysis puts in the alternatives list.
IsPlaceholder(alternatives) ==
  /\ Len(alternatives) = 1
  /\ alternatives[1].name = "Similar Project Search Needed"

\* The record the call of handler p wrote is the one it returns, and it is
\* a row of the store.
StoredAndReturned(p) ==
  /\ Returned(p)
  /\ proc[p].analysisRecord = proc[p].wrote
  /\ proc[p].analysisRecord \in aiAnalyses

\* C7 as stated: when the generator fails validation twice the record
\* stored and returned has category equal to the repository's primary
\* language and exactly one placeholder alternative.
C7_Original ==
  \A p \in Procs :
    Synthesized(p) =>
      /\ StoredAndReturned(p)
      /\ proc[p].analysisRecord.category = proc[p].repoRecord.primaryLanguage
      /\ IsPlaceholder(proc[p].analysisRecord.alternatives)

\* C7: when the generator fails validation twice the record stored and
\* returned has category equal to the repository's primary language, or
\* "Unknown" when the repository has no primary language, and exactly one
\* placeholder alternative.
C7_SynthesizedRecord ==
  \A p \in Procs :
    Synthesized(p) =>
      /\ StoredAndReturned(p)
      /\ proc[p].analysisRecord.category =
           (IF proc[p].repoRecord.primaryLanguage = Null THEN "Unknown"
            ELSE proc[p].repoRecord.primaryLanguage)
      /\ IsPlaceholder(proc[p].analysisRecord.alternatives)

\* A synthesized record for a repository without a primary language.
C7_Witness ==
  \E p \in Procs :
    /\ Synthesized(p)
    /\ Returned(p)
    /\ proc[p].repoRecord.primaryLanguage = Null

\* C8: when the provider reports not-found for a key with no stored
\* repository, the call fails with a not-found error, which both handlers
\* answer with status 404 whatever the name of the repository, and no row
\* is created.
C8_NotFound ==
  \A p \in Procs :
    Done(p) /\ proc[p].firstTime /\ proc[p].statuses = {404} =>
      /\ Threw(p)
      /\ Includes(proc[p].error.msg, "not found")
      /\ \A repo \in RepoNames :
           /\ GETStatus(Named(proc[p].error, repo)) = 404
           /\ POSTStatus(Named(proc[p].error, repo)) = 404
      /\ proc[p].writes = 0
      /\ KeyRows = {}
      /\ KeyAnalyses = {}

\* The failures of the provider the handlers tell apart.
TypedFailures == {401, 403, 404}

\* C9: in every call that consults the provider, a forced call on a stored
\* repository included, a provider failure makes the call fail with the
\* error of that failure and leaves the store unmodified.
C9_ProviderFailure ==
  \A p \in Procs :
    Done(p) /\ proc[p].provCalls >= 1 /\ proc[p].statuses \subseteq TypedFailures =>
      /\ Threw(p)
      /\ proc[p].cause \in proc[p].statuses
      /\ proc[p].writes = 0

\* The status the mapping of C10 gives the failure behind response `status`
\* of the provider.
ExpectedStatus(status) ==
  CASE status = 404 -> 404
    [] status = 403 -> 429
    [] OTHER -> 500

\* A uniqueness-constraint error of the database driver.
UniqueViolation ==
  MkError(<<"duplicate key value violates unique constraint">>, "23505")

\* C10: the handlers answer a failed call with 404 for not-found, 429 for
\* rate-limited, 202 for analysis-in-progress (a uniqueness-constraint
\* error), and 500 for an authentication failure or any other error.
C10_StatusMapping ==
  /\ POSTStatus(UniqueViolation) = 202
  /\ \A p \in Procs :
       Threw(p) =>
         \A repo \in RepoNames :
           /\ GETStatus(Named(proc[p].error, repo)) = ExpectedStatus(proc[p].cause)
           /\ POSTStatus(Named(proc[p].error, repo)) = ExpectedStatus(proc[p].cause)

\* ------------------------------------------------- GET /api/analysis-status
\* The body of the 200 response, with !!analysisRecord for hasAnalysis and
\* !analysisRecord for isAnalyzing, as a response that reports every
\* repository without analysis as finished would have it.
StatusBodyNeverAnalyzing(repoRecord, analysisRecord) ==
  [status |-> 200, exists |-> repoRecord # NoRepo,
   hasAnalysis |-> repoRecord # NoRepo /\ analysisRecord # NoAnalysis,
   isAnalyzing |-> FALSE]

\* The body of the 200 response of the status handler.
StatusBody(repoRecord, analysisRecord) ==
  IF repoRecord = NoRepo
  THEN [status |-> 200, exists |-> FALSE, hasAnalysis |-> FALSE,
        isAnalyzing |-> FALSE]
  ELSE [status |-> 200, exists |-> TRUE,
        hasAnalysis |-> analysisRecord # NoAnalysis,
        isAnalyzing |-> analysisRecord = NoAnalysis]

\* The 500 response of the catch of the status handler.
StatusFailed == [status |-> 500, exists |-> FALSE, hasAnalysis |-> FALSE,
                 isAnalyzing |-> FALSE]

\* A status request arrives: repoRecord = findFirst(fullName), and the
\* response when there is no repository or the read fails.
StatusReadRepo ==
  /\ analysisStatus.pc \in {"idle", "done"}
  /\ \E ok \in StoreOutcomes :
       /\ Fault(ok)
       /\ LET arrived == [IdleStatus EXCEPT !.calls = calls,
                                            !.quiet = \A p \in Procs : ~Busy(p)]
          IN
          IF ok
          THEN \E r \in findFirst(RepositoriesByFullName(fullName), NoRepo) :
                 analysisStatus' = IF r = NoRepo
                           THEN [arrived EXCEPT !.pc = "done",
                                                !.response = StatusBody(r, NoAnalysis)]
                           ELSE [arrived EXCEPT !.pc = "readAnalysis",
                                                !.repoRecord = r]
          ELSE analysisStatus' = [arrived EXCEPT !.pc = "done", !.response = StatusFailed]
  /\ UNCHANGED <<store, now, github, mode, proc, calls, services, functions>>

\* analysisRecord = findFirst(repositoryId), and the response.
StatusReadAnalysis ==
  /\ analysisStatus.pc = "readAnalysis"
  /\ \E ok \in StoreOutcomes :
       /\ Fault(ok)
       /\ IF ok
          THEN \E a \in findFirst(AnalysesByRepositoryId(analysisStatus.repoRecord.id), NoAnalysis) :
                 analysisStatus' = [analysisStatus EXCEPT !.pc = "done",
                                          !.response = StatusBody(analysisStatus.repoRecord, a)]
          ELSE analysisStatus' = [analysisStatus EXCEPT !.pc = "done", !.response = StatusFailed]
  /\ UNCHANGED <<store, now, github, mode, proc, calls, services, functions>>

\* Status requests beside the calls of a store that may fail.
NextStatus ==
  \/ NextFault
  \/ StatusReadRepo
  \/ StatusReadAnalysis

SpecStatus == InitFault /\ [][NextStatus]_vars

\* A status request has been answered from a store that no call has
\* written since the request arrived.
StatusAnswered ==
  /\ analysisStatus.pc = "done"
  /\ analysisStatus.response.status = 200
  /\ analysisStatus.quiet
  /\ analysisStatus.calls = calls
  /\ \A p \in Procs : ~Busy(p)

\* C11: the status endpoint is a read-only projection of the store: its
\* steps never modify the store, and its response has exists = (a
\* repository row with the fullName exists), hasAnalysis = (exists and an
\* analysis row of that repository exists), isAnalyzing = (exists and not
\* hasAnalysis).
C11_StatusProjection ==
  /\ [](StatusAnswered =>
          /\ analysisStatus.response.exists = (KeyRows # {})
          /\ analysisStatus.response.hasAnalysis = (KeyRows # {} /\ KeyAnalyses # {})
          /\ analysisStatus.response.isAnalyzing = (KeyRows # {} /\ KeyAnalyses = {}))
  /\ [][StatusReadRepo \/ StatusReadAnalysis => UNCHANGED store]_vars

\* The status of a repository that exists and has no analysis.
C11_Witness ==
  /\ StatusAnswered
  /\ analysisStatus.response.isAnalyzing
  /\ KeyRows # {}

\* The call of handler p found a repository record at its start, did not
\* force a refresh, and found the analysis missing or stale.
RegeneratesUnforced(p) ==
  /\ Done(p)
  /\ ~proc[p].forceRefresh
  /\ ~proc[p].firstTime
  /\ proc[p].repoRecord # NoRepo
  /\ \/ proc[p].cached = NoAnalysis
     \/ now - proc[p].cached.createdAt >= CACHE_DAYS

RepoInputs ==
  { [name |-> ReqRepo, language |-> language, stargazers_count |-> stars] :
      language \in Languages, stars \in {0, 10} }

\* One call with the analysis request alone, over every answer of the
\* language model.
InitService == Begin("service", 0)

\* The call of generateObject: its schema, its prompt and its temperature
\* (in tenths).
StrictGeneration ==
  [schema |-> "AnalysisSchema", prompt |-> "buildAnalysisPrompt", temperature |-> 7]

ExplicitGeneration ==
  [schema |-> "FallbackAnalysisSchema", prompt |-> "buildExplicitPrompt",
   temperature |-> 3]

\* analyzeRepository(repoData) is called.
CallAnalyze ==
  /\ aiService.pc = "idle"
  /\ \E repoData \in RepoInputs, llm \in LLMOutcomes :
       aiService' = [IdleService EXCEPT !.pc = "primary", !.repoData = repoData,
                                        !.llm = llm]
  /\ UNCHANGED <<store, now, github, mode, proc, calls, faults, analysisStatus, poller,
               functions>>

\* The first generateObject, under AnalysisSchema: its object goes through
\* the web search and is returned; a validation error leads to the
\* recovery; any other error is thrown.
GeneratePrimary ==
  /\ aiService.pc = "primary"
  /\ LET tried == [aiService EXCEPT !.generations = Append(@, StrictGeneration)] IN
     aiService' =
       IF tried.llm.primary # "ok" /\ RecoversFrom(tried.llm.primary)
       THEN [tried EXCEPT !.pc = "recovery"]
       ELSE [tried EXCEPT !.pc = "done",
                          !.result = analyzeRepository(tried.repoData, tried.llm)]
  /\ UNCHANGED <<store, now, github, mode, proc, calls, faults, analysisStatus, poller,
               functions>>

\* The second generateObject, under FallbackAnalysisSchema: its object is
\* completed, goes through the web search and is returned; any error leads
\* to createFallbackAnalysis.
GenerateExplicit ==
  /\ aiService.pc = "recovery"
  /\ aiService' = [aiService EXCEPT
                     !.generations = Append(@, ExplicitGeneration),
                     !.pc = "done",
                     !.result = analyzeRepository(aiService.repoData, aiService.llm)]
  /\ UNCHANGED <<store, now, github, mode, proc, calls, faults, analysisStatus, poller,
               functions>>

NextService ==
  \/ CallAnalyze
  \/ GeneratePrimary
  \/ GenerateExplicit

SpecService == InitService /\ [][NextService]_vars

\* C13: analyzeRepository retries the core analysis exactly once: the
\* strict-schema generation is made once, a second generation (explicit
\* prompt, relaxed schema, lower temperature) is made only after a
\* validation failure of the first, and when the second fails the
\* synthesized fallback is returned with no third generation.
C13_RetriesOnce ==
  LET g == aiService.generations IN
  /\ Len(g) <= 2
  /\ aiService.pc = "done" =>
       /\ Len(g) >= 1
       /\ g[1] = StrictGeneration
       /\ Len(g) = 2 <=> aiService.llm.primary = "invalid"
       /\ Len(g) = 2 =>
            /\ g[2] = ExplicitGeneration
            /\ g[2].temperature < g[1].temperature
            /\ aiService.llm.retry = "fail" =>
                 /\ ~aiService.result.thrown
                 /\ aiService.result.value = createFallbackAnalysis(aiService.repoData)

\* The second generation has failed and the synthesized analysis is returned.
C13_Witness ==
  /\ aiService.pc = "done"
  /\ Len(aiService.generations) = 2
  /\ aiService.llm.retry = "fail"
  /\ aiService.result.layer = "synth"

\* A forced call has returned for a key whose repository record existed
\* with an analysis less than CACHE_DAYS old, written on an earlier day.
ForcedOnFresh(p) ==
  /\ Returned(p)
  /\ proc[p].forceRefresh
  /\ ~proc[p].firstTime
  /\ proc[p].cached # NoAnalysis
  /\ daysSinceAnalysis(proc[p].cached) < CACHE_DAYS
  /\ now > proc[p].cached.updatedAt

\* C14: a resolve call with forceRefresh=true on a key that has a
\* repository record and a non-stale analysis invokes the provider and the
\* generator again, and the updated timestamp of the analysis record after
\* the call differs from its value before the call.
C14_ForcedRegenerates ==
  \A p \in Procs :
    ForcedOnFresh(p) =>
      /\ proc[p].provCalls >= 1
      /\ proc[p].genCalls >= 1
      /\ proc[p].analysisRecord.updatedAt # proc[p].cached.updatedAt

\* Handler p invokes the generator in a call that has written the
\* repository row (the only writes before the generation).
GeneratesAfterWrite(p) ==
  /\ Analyze(p)
  /\ proc[p].writes >= 1

\* C15: within one resolve call the steps are sequential: once the
\* generator has been invoked the call makes no provider call and no write
\* of the repository row, and the attributes passed to the generator are
\* those of the repository row the call has materialized.
C15_GeneratorAfterMaterialize ==
  [][\A p \in Procs :
       /\ (proc[p].genCalls >= 1 /\ proc'[p].callNo = proc[p].callNo) =>
            /\ proc'[p].provCalls = proc[p].provCalls
            /\ proc'[p].pc \in {"readFinal", "writeFallback", "readFallback", "done"}
       /\ GeneratesAfterWrite(p) =>
            \E r \in repositories :
              /\ r.id = proc[p].repoRecord.id
              /\ githubRepoData(r) = githubRepoData(proc[p].repoRecord)]_vars

\* The first call has completed, no other has started, and one of its
\* store operations has failed.
StoreFailedIn(p) ==
  /\ Done(p)
  /\ proc[p].callNo = 1
  /\ calls = 1
  /\ faults >= 1

\* C16: when a store read or write fails because the store is unreachable,
\* resolve fails with the storage error, which the caller can tell apart
\* from not-found and rate-limited; it never returns repository or
\* analysis data.
C16_StorageUnavailable ==
  \A p \in Procs :
    StoreFailedIn(p) =>
      /\ Threw(p)
      /\ proc[p].error = StoreError
      /\ \A repo \in RepoNames :
           /\ GETStatus(Named(proc[p].error, repo)) \notin {404, 429}
           /\ POSTStatus(Named(proc[p].error, repo)) \notin {404, 429}

\* An unforced call has completed that found the repository record,
\* created at this very moment by the call beside it, and no analysis.
RecentWithoutAnalysis(p) ==
  /\ Done(p)
  /\ ~proc[p].forceRefresh
  /\ ~proc[p].firstTime
  /\ proc[p].repoRecord # NoRepo
  /\ proc[p].repoRecord.createdAt = now
  /\ proc[p].cached = NoAnalysis

\* C17: resolve signals AnalysisInProgress (HTTP 202), distinct from an
\* error and from a completed result, when the repository record of the
\* key exists, is under 2 minutes old, has no analysis record, and
\* forceRefresh is false.
C17_AnalysisInProgress ==
  \A p \in Procs :
    RecentWithoutAnalysis(p) =>
      /\ Threw(p)
      /\ \A repo \in RepoNames : POSTStatus(Named(proc[p].error, repo)) = 202

\* A list of alternatives as the analysis schemas require it.
ValidAlternatives(alternatives) ==
  /\ Len(alternatives) >= 1
  /\ \A i \in DOMAIN alternatives : AlternativeSchema(alternatives[i])

\* C18: in every reachable store state, every analysis row written by
\* resolve (by the success path, the relaxed retry, the fallback of the
\* service and the fallback of the route) has a non-empty alternatives
\* list whose every entry has a non-empty name, a syntactically valid URL
\* and a non-empty reasoning.
C18_AlternativesValid ==
  /\ \A a \in aiAnalyses : ValidAlternatives(a.alternatives)
  /\ \A p \in Procs : proc[p].wrote # NoAnalysis => ValidAlternatives(proc[p].wrote.alternatives)

\* The fallback of the route has written the row the call returns.
C18_Witness ==
  \E p \in Procs :
    /\ Returned(p)
    /\ proc[p].layer = "thrown"
    /\ proc[p].wrote \in aiAnalyses
    /\ proc[p].wrote.alternatives[1].name = "Search GitHub"
    /\ proc[p].wrote.alternatives[1].url[4] = "%20"

\* The fields an analysis must have: at least one alternative, a category,
\* a summary, at least one strength, at least one consideration, a use case
\* and a target audience.
Complete(analysis) ==
  /\ Len(analysis.alternatives) >= 1
  /\ analysis.category # ""
  /\ analysis.summary # ""
  /\ Len(analysis.strengths) >= 1
  /\ Len(analysis.considerations) >= 1
  /\ analysis.useCase # ""
  /\ analysis.targetAudience # ""

\* C19: every analysis analyzeRepository returns, whichever of the three
\* layers produced it, has all required fields: at least one alternative,
\* a non-empty category, a summary, at least one strength, at least one
\* consideration, a use case and a target audience.
C19_AnalysisComplete ==
  (aiService.pc = "done" /\ ~aiService.result.thrown) =>
     Complete(aiService.result.value)

\* ------------------------------------------------ the AnalysisInProgress poller
\* The component alone, polling a status endpoint that answers.
InitPoller == Begin("poller", 0)

\* "Progressive backoff: 2s -> 3s -> 5s -> 8s -> 10s (max)": the
\* pollInterval set with poll number newCount, in seconds.
Backoff(newCount) ==
  IF newCount <= 3 THEN 2
  ELSE IF newCount <= 6 THEN 3
  ELSE IF newCount <= 10 THEN 5
  ELSE IF newCount <= 15 THEN 8
  ELSE 10

\* The effect: createPollInterval() and the intervalUpdater, both set with
\* the pollInterval of the render the effect belongs to; the timer set
\* first runs first.
Effect(component) ==
  [component EXCEPT !.captured = component.pollInterval,
                    !.pollDue = component.time + component.pollInterval,
                    !.updaterDue = component.time + component.pollInterval,
                    !.first = "poll"]

\* The component is mounted, in an engine that re-arms a repeating timer
\* once its callback has run ("html") or at its due time ("drift"); the
\* analysis may exist already.
Mount ==
  /\ poller.pc = "unmounted"
  /\ \E engine \in {"html", "drift"}, ready \in BOOLEAN :
       poller' = Effect([poller EXCEPT !.pc = "mounted", !.engine = engine,
                                       !.ready = ready])
  /\ UNCHANGED <<store, now, github, mode, proc, calls, faults, analysisStatus, aiService,
               functions>>

\* The parent renders again and passes a new onAnalysisComplete: the
\* cleanup of the effect clears the timers and the effect runs again.
Rerender ==
  /\ poller.pc = "mounted"
  /\ poller.renders < MaxRenders
  /\ poller' = Effect([poller EXCEPT !.renders = @ + 1])
  /\ UNCHANGED <<store, now, github, mode, proc, calls, faults, analysisStatus, aiService,
               functions>>

\* currentPollInterval fires: pollCount and pollInterval are set, the status
\* is fetched, and when the analysis exists the poll timer is cleared and
\* the callback is set; intervalUpdater is left running.
Poll ==
  /\ poller.pc = "mounted"
  /\ poller.pollCount < MaxPolls
  /\ poller.pollDue # Cleared
  /\ \/ poller.updaterDue = Cleared
     \/ poller.pollDue < poller.updaterDue
     \/ poller.pollDue = poller.updaterDue /\ poller.first = "poll"
  /\ \E exists \in (IF poller.ready THEN {TRUE} ELSE BOOLEAN) :
       LET newCount == poller.pollCount + 1 IN
       poller' = [poller EXCEPT
                    !.time = poller.pollDue,
                    !.pollCount = newCount,
                    !.pollInterval = Backoff(newCount),
                    !.delay = poller.pollDue - poller.lastPoll,
                    !.lastPoll = poller.pollDue,
                    !.ready = exists,
                    !.callbacks = IF exists THEN @ + 1 ELSE @,
                    !.pollDue = IF exists THEN Cleared
                                ELSE poller.pollDue + poller.captured]
  /\ UNCHANGED <<store, now, github, mode, proc, calls, faults, analysisStatus, aiService,
               functions>>

\* intervalUpdater fires: clearInterval(currentPollInterval) and
\* createPollInterval(), with the pollInterval the effect has captured.
Update ==
  /\ poller.pc = "mounted"
  /\ poller.pollCount < MaxPolls
  /\ poller.updaterDue # Cleared
  /\ \/ poller.pollDue = Cleared
     \/ poller.updaterDue < poller.pollDue
     \/ poller.updaterDue = poller.pollDue /\ poller.first = "updater"
  /\ poller.updaterDue <= 2 * MaxPolls
  /\ poller' = [poller EXCEPT
                  !.time = poller.updaterDue,
                  !.pollDue = poller.updaterDue + poller.captured,
                  !.updaterDue = poller.updaterDue + poller.captured,
                  !.first = IF poller.engine = "html" THEN "poll" ELSE "updater"]
  /\ UNCHANGED <<store, now, github, mode, proc, calls, faults, analysisStatus, aiService,
               functions>>

\* onAnalysisComplete has refetched the data and the page shows them: the
\* component is unmounted and the cleanup of its effect clears the timers.
Unmount ==
  /\ poller.pc = "mounted"
  /\ poller.callbacks >= 1
  /\ poller' = [poller EXCEPT !.pc = "gone", !.pollDue = Cleared,
                              !.updaterDue = Cleared]
  /\ UNCHANGED <<store, now, github, mode, proc, calls, faults, analysisStatus, aiService,
               functions>>

NextPoller ==
  \/ Mount
  \/ Rerender
  \/ Poll
  \/ Update
  \/ Unmount

SpecPoller == InitPoller /\ [][NextPoller]_vars

\* C20: the poller uses progressive backoff: the delay before a status
\* poll is 2 seconds for the first 3 polls, 3 seconds for the next 3, 5
\* seconds for the next 4, 8 seconds for the next 5, and 10 seconds for
\* every poll after that.
C20_ProgressiveBackoff ==
  poller.pollCount >= 1 => poller.delay = Backoff(poller.pollCount)

\* ---------------------------------------------------- GET /api/repositories
PAGE_SIZE == 12

\* The texts of the listed repositories and the texts each contains (SQL
\* LIKE '%search%'); a null column contains none.
SubstringsOfText(text) ==
  CASE text = "react" -> {"react", "act"}
    [] text = "preact" -> {"preact", "react", "act"}
    [] text = "vue" -> {"vue"}
    [] text = "acme" -> {"acme"}
    [] text = "facebook" -> {"facebook"}
    [] OTHER -> {}

\* like(column, `%${search}%`)
like(column, search) == search \in SubstringsOfText(column)

\* Row id of the listed store, with the columns the endpoint reads: the
\* name is a stem followed by a number, and the sort keys differ from row
\* to row.
ListedRow(id) ==
  [id |-> id,
   name |-> [stem |-> <<"react", "preact", "vue">>[(id % 3) + 1], no |-> id],
   owner |-> IF id % 2 = 0 THEN "acme" ELSE "facebook",
   description |-> IF id % 4 = 0 THEN "vue" ELSE Null,
   primaryLanguage |-> <<"TypeScript", "Go", Null>>[((id \div 3) % 3) + 1],
   stars |-> 10 * id, forks |-> (id * 7) % 29,
   githubUpdatedAt |-> (id * 11) % 29, updatedAt |-> id]

\* The list endpoint alone over a store that does not change.
InitList ==
  /\ Uncalled
  /\ analysisStatus = IdleStatus
  /\ aiService = IdleService
  /\ poller = Unmounted
  /\ \E n \in 0..MaxRows : repositories = {ListedRow(id) : id \in 1..n}
  /\ aiAnalyses = {}
  /\ nextRepoId = MaxRows + 1
  /\ nextAnalysisId = 1
  /\ Environment
  /\ now = 0
  /\ proc = [p \in Procs |-> IdleProc]
  /\ calls = 0
  /\ faults = 0
  /\ mode = "list"

\* "Construir condiciones de filtrado": the conditions pushed.
Conditions(search, language) ==
  (IF search # "" THEN <<"search">> ELSE <<>>)
  \o (IF language # "" /\ language # "all" THEN <<"language">> ELSE <<>>)

\* One condition on a row: the or of the three likes, or the eq on the
\* language.
Holds(condition, row, search, language) ==
  IF condition = "search"
  THEN \/ like(row.name.stem, search)
       \/ like(row.owner, search)
       \/ like(row.description, search)
  ELSE row.primaryLanguage = language

\* A where that joins the conditions with and.
WhereAll(row, search, language) ==
  \A i \in DOMAIN Conditions(search, language) :
    Holds(Conditions(search, language)[i], row, search, language)

\* The where of both queries: none, the one condition, or or(...conditions).
Where(row, search, language) ==
  LET conditions == Conditions(search, language) IN
  IF Len(conditions) = 0 THEN TRUE
  ELSE IF Len(conditions) = 1 THEN Holds(conditions[1], row, search, language)
  ELSE \E i \in DOMAIN conditions : Holds(conditions[i], row, search, language)

\* "Determinar el orden": row a comes before row b.
Before(a, b, sortBy) ==
  CASE sortBy = "forks" -> a.forks > b.forks
    [] sortBy = "updated" -> a.githubUpdatedAt > b.githubUpdatedAt
    [] sortBy = "name" ->
         \/ a.name.stem = "preact" /\ b.name.stem # "preact"
         \/ a.name.stem = "react" /\ b.name.stem = "vue"
         \/ a.name.stem = b.name.stem /\ a.name.no < b.name.no
    [] OTHER -> a.stars > b.stars

\* orderBy(...orderByClause)
OrderBy(rows, sortBy) ==
  [i \in 1..Cardinality(rows) |->
     CHOOSE a \in rows : Cardinality({b \in rows : Before(b, a, sortBy)}) = i - 1]

\* limit(PAGE_SIZE).offset(page * PAGE_SIZE)
LimitOffset(rows, limit, offset) ==
  IF offset >= Len(rows) THEN <<>>
  ELSE SubSeq(rows, offset + 1, IF offset + limit <= Len(rows) THEN offset + limit
                                ELSE Len(rows))

\* nextPage: null
NoPage == -1

\* A next page whenever the rows up to this page do not exceed the total.
HasNextPageInclusive(page, total) == (page + 1) * PAGE_SIZE <= total

\* const hasNextPage = (page + 1) * PAGE_SIZE < total
HasNextPage(page, total) == (page + 1) * PAGE_SIZE < total

\* The response of the endpoint: 500 when the query throws (a negative
\* offset), else the page and its metadata.
ListResponse(page, search, language, sortBy) ==
  IF page < 0
  THEN [status |-> 500, repositories |-> <<>>, hasNextPage |-> FALSE,
        nextPage |-> NoPage, total |-> 0, page |-> page]
  ELSE LET matching == {row \in repositories : Where(row, search, language)}
           total == Cardinality(matching)
           hasNextPage == HasNextPage(page, total)
       IN [status |-> 200,
           repositories |-> LimitOffset(OrderBy(matching, sortBy), PAGE_SIZE,
                                        page * PAGE_SIZE),
           hasNextPage |-> hasNextPage,
           nextPage |-> IF hasNextPage THEN page + 1 ELSE NoPage,
           total |-> total, page |-> page]

\* The request of a client and the answer: with followed, the request
\* belongs to the chain useRepositories builds from page 0.
Listed(page, search, language, sortBy, followed, requests) ==
  [pc |-> "listed", search |-> search, language |-> language, sortBy |-> sortBy,
   followed |-> followed, requests |-> requests,
   response |-> ListResponse(page, search, language, sortBy)]

\* A client requests a page: any page directly, or page 0 through
\* useRepositories (initialPageParam).
List ==
  /\ listing.pc = "idle"
  /\ \E page \in -1..MaxPage, search \in {"", "act", "vue"},
        language \in {"", "all", "TypeScript", "Go"},
        sortBy \in {"stars", "forks", "updated", "name"},
        followed \in BOOLEAN :
       /\ followed => page = 0
       /\ listing' = Listed(page, search, language, sortBy, followed, 1)
  /\ UNCHANGED <<store, now, github, mode, proc, calls, faults, analysisStatus,
                 services, topicsCall, enhanceCall, repoInfoCall>>

\* getNextPageParam: lastPage.hasNextPage ? lastPage.nextPage : undefined,
\* and the request of that page.
ListNext ==
  /\ listing.pc = "listed"
  /\ listing.followed
  /\ listing.response.hasNextPage
  /\ listing' = Listed(listing.response.nextPage, listing.search, listing.language,
                       listing.sortBy, TRUE, listing.requests + 1)
  /\ UNCHANGED <<store, now, github, mode, proc, calls, faults, analysisStatus,
                 services, topicsCall, enhanceCall, repoInfoCall>>

NextList ==
  \/ List
  \/ ListNext

SpecList == InitList /\ [][NextList]_vars

\* The request names a language to filter by, and it is answered.
FiltersByLanguage ==
  /\ listing.pc = "listed"
  /\ listing.response.status = 200
  /\ listing.language \notin {"", "all"}

\* C21: the list endpoint filters by language: for every request with a
\* language parameter L other than 'all', with or without a search term,
\* every repository in the response has primaryLanguage equal to L.
C21_LanguageFilter ==
  FiltersByLanguage =>
    \A i \in DOMAIN listing.response.repositories :
      listing.response.repositories[i].primaryLanguage = listing.language

\* The repositories the where of the answered request selects.
Matching ==
  {row \in repositories : Where(row, listing.search, listing.language)}

Json(type, text, items) == [type |-> type, text |-> text, items |-> items]

JUndefined == Json("undefined", "", <<>>)
JNull == Json("null", "", <<>>)
JString(text) == Json("string", text, <<>>)
JNumber(text) == Json("number", text, <<>>)
JArray(items) == Json("array", "", items)
JObject == Json("object", "", <<>>)

\* The topics of the repository as GitHub lists them.
TopicItems ==
  { <<>>, << [type |-> "string", text |-> "ui"] >>,
    << [type |-> "string", text |-> "ui"], [type |-> "string", text |-> "framework"] >> }

\* What the names field of the body may hold: nothing, the topics, or a
\* value of another shape.
NamesValues ==
  {JUndefined, JNull, JString(""), JString("ui"), JNumber("0"), JNumber("5"), JObject}
  \cup {JArray(items) : items \in TopicItems}
  \cup {JArray(<< [type |-> "number", text |-> "5"] >>)}

\* The bodies of the response: text that is no JSON, the JSON null, and
\* an object with its names field.
TopicsBodies ==
  {[kind |-> "unparsable", names |-> JUndefined], [kind |-> "null", names |-> JUndefined]}
  \cup {[kind |-> "object", names |-> names] : names \in NamesValues}

\* What fetch does: it throws (network failure) or it answers with a status.
FetchOutcomes == {0} \cup ProviderStatuses

\* response.ok
ResponseOk(status) == status >= 200 /\ status <= 299

\* The truthiness of a JSON value.
Truthy(value) ==
  /\ value.type \notin {"undefined", "null"}
  /\ value.type = "string" => value.text # ""
  /\ value.type = "number" => value.text # "0"

\* getRepositoryTopics: [] when fetch throws, when the response is not ok,
\* when response.json() throws and when data.names throws; else
\* data.names || [].
getRepositoryTopics(fetched, body) ==
  IF fetched = 0 THEN [thrown |-> FALSE, value |-> JArray(<<>>)]
  ELSE IF ~ResponseOk(fetched) THEN [thrown |-> FALSE, value |-> JArray(<<>>)]
  ELSE IF body.kind \in {"unparsable", "null"}
  THEN [thrown |-> FALSE, value |-> JArray(<<>>)]
  ELSE [thrown |-> FALSE,
        value |-> IF Truthy(body.names) THEN body.names ELSE JArray(<<>>)]

\* One getRepositoryTopics call alone, over every outcome of the provider.
InitTopics == Begin("topics", 0)

GetTopics ==
  /\ topicsCall.pc = "idle"
  /\ \E fetched \in FetchOutcomes, body \in TopicsBodies :
       topicsCall' = [pc |-> "done", fetched |-> fetched, body |-> body,
                      result |-> getRepositoryTopics(fetched, body)]
  /\ UNCHANGED <<store, now, github, mode, proc, calls, faults, analysisStatus,
                 services, listing, enhanceCall, repoInfoCall>>

NextTopics == GetTopics

SpecTopics == InitTopics /\ [][NextTopics]_vars

\* An array of strings.
IsStringArray(value) ==
  /\ value.type = "array"
  /\ \A i \in DOMAIN value.items : value.items[i].type = "string"

\* The call has failed: no answer, an answer that is not ok, or a body
\* that does not hold an array of strings under names.
TopicsFailed ==
  \/ topicsCall.fetched = 0
  \/ ~ResponseOk(topicsCall.fetched)
  \/ topicsCall.body.kind # "object"
  \/ ~IsStringArray(topicsCall.body.names)

\* C22: getRepositoryTopics never throws: for every provider outcome
\* (non-OK status, network failure, malformed body) it returns a sequence
\* of strings, which is empty on any failure.
C22_TopicsNeverThrows ==
  topicsCall.pc = "done" =>
    /\ ~topicsCall.result.thrown
    /\ IsStringArray(topicsCall.result.value)
    /\ TopicsFailed => topicsCall.result.value = JArray(<<>>)

\* --------------------------------- AIAnalysisService.enhanceWithWebSearch
\* An alternative of the given name.
Alternative(name) ==
  [name |-> name, url |-> <<"https://", "github.com", "/search?q=">>,
   reasoning |-> "same purpose"]

\* The lists of alternatives an initial analysis may hold: up to three
\* entries whose names may differ in case only, and a list of
\* MAX_ALTERNATIVES + 1 different names.
InitialAlternatives ==
  { [i \in 1..n |-> Alternative(names[i])] :
      n \in 1..3, names \in [1..3 -> {"Alpha", "alpha", "Beta", "Gamma"}] }
  \cup { [i \in 1..(MAX_ALTERNATIVES + 1) |-> Alternative(ToString(i))] }

\* The lists the web search may find: one to six entries.
FoundAlternatives ==
  { WebAlternatives, << Alternative("beta") >>,
    [i \in 1..6 |-> Alternative(ToString(i + 5))] }

\* One enhanceWithWebSearch call alone.
InitEnhance == Begin("enhance", 0)

Enhance ==
  /\ enhanceCall.pc = "idle"
  /\ \E alternatives \in InitialAlternatives, web \in {"ok", "empty", "error"},
        found \in FoundAlternatives :
       /\ web # "ok" => found = WebAlternatives
       /\ LET initialAnalysis == [PrimaryObject EXCEPT !.alternatives = alternatives] IN
          enhanceCall' = [pc |-> "done", initialAnalysis |-> initialAnalysis,
                          web |-> web, found |-> found,
                          result |-> enhanceWithFound(initialAnalysis, web, found)]
  /\ UNCHANGED <<store, now, github, mode, proc, calls, faults, analysisStatus,
                 services, listing, topicsCall, repoInfoCall>>

NextEnhance == Enhance

SpecEnhance == InitEnhance /\ [][NextEnhance]_vars

\* The alternatives the call had before it: those of the initial analysis,
\* then those the web search found.
Offered ==
  enhanceCall.initialAnalysis.alternatives
  \o (IF enhanceCall.web = "ok" THEN enhanceCall.found ELSE <<>>)

\* The positions of the first occurrences of the names, ignoring case.
FirstOccurrences(alternatives) ==
  {i \in DOMAIN alternatives :
     \A j \in 1..(i - 1) :
       toLowerCase(alternatives[j].name) # toLowerCase(alternatives[i].name)}

\* The k-th of a set of positions.
Kth(positions, k) ==
  CHOOSE i \in positions : Cardinality({j \in positions : j < i}) = k - 1

\* C24: every analysis enhanceWithWebSearch returns, for every outcome of
\* the web search (success, empty result or failure) and every initial
\* analysis, has at most 8 alternatives and no two alternatives whose names
\* are equal ignoring case, with the first occurrence of each name kept in
\* its original order.
C24_DedupAndCap ==
  enhanceCall.pc = "done" =>
    LET result == enhanceCall.result.alternatives
        firsts == FirstOccurrences(Offered)
    IN /\ Len(result) <= MAX_ALTERNATIVES
       /\ \A i, j \in DOMAIN result :
            i # j => toLowerCase(result[i].name) # toLowerCase(result[j].name)
       /\ Len(result) <= Cardinality(firsts)
       /\ \A k \in DOMAIN result : result[k] = Offered[Kth(firsts, k)]

\* ------------------------------------------------------- getRepositoryInfo
\* "Transform to our internal format": the repository getRepositoryInfo
\* returns with source 'github', under the provider's full_name.
InternalFormat(repoData) ==
  [fullName |-> repoData.full_name, name |-> repoData.name,
   primaryLanguage |-> repoData.language, stars |-> repoData.stargazers_count]

\* The catch around the save: "Continue even if database save fails".
\* FALSE would be a catch that throws the error again.
RethrowsSaveFailure == FALSE

ContinuesAfterSaveFailure == TRUE

\* What a getRepositoryInfo call leaves to the call after it: its source,
\* whether its save succeeded, and whether it has returned at all.
NoInfo == [callNo |-> 0, source |-> Null, saved |-> FALSE]

InfoSummary ==
  IF repoInfoCall.pc = "idle" THEN NoInfo
  ELSE [callNo |-> repoInfoCall.callNo, source |-> repoInfoCall.source,
        saved |-> repoInfoCall.saved = "ok"]

\* getRepositoryInfo(owner, repoName) is called, by a caller other than
\* fetchAndAnalyze, while no call of it is running and between resolve
\* calls (a resolve call may start while it runs).
InfoCall ==
  /\ repoInfoCall.pc \in {"idle", "done"}
  /\ \A p \in Procs : ~Busy(p)
  /\ InfoSummary.callNo < MaxInfoCalls
  /\ repoInfoCall' =
       [pc |-> "read", callNo |-> InfoSummary.callNo + 1, before |-> InfoSummary,
        found |-> "unread", status |-> 0, provCalls |-> 0, saved |-> "none",
        thrown |-> FALSE, error |-> NoError, source |-> Null,
        repository |-> InternalFormat(GitHubData(<<Null, Null>>, Null, 0)),
        resolved |-> calls, quiet |-> FALSE]
  /\ UNCHANGED <<store, now, github, mode, proc, calls, faults, analysisStatus,
                 services, listing, topicsCall, enhanceCall>>

\* What the call is when it returns or throws: the resolve calls started
\* until then, and whether none of them was running.
InfoDone(call) ==
  [call EXCEPT !.pc = "done", !.resolved = calls,
               !.quiet = \A p \in Procs : ~Busy(p)]

\* existingRepo = await db.query.repositories.findFirst(fullName): a row
\* found is returned with source 'database'; a failure of the read goes
\* through the outer catch to the caller.
InfoRead ==
  /\ repoInfoCall.pc = "read"
  /\ \E ok \in StoreOutcomes :
       /\ Fault(ok)
       /\ IF ok
          THEN \E r \in findFirst(RepositoriesByFullName(fullName), NoRepo) :
                 repoInfoCall' =
                   IF r = NoRepo
                   THEN [repoInfoCall EXCEPT !.pc = "fetch", !.found = "absent"]
                   ELSE InfoDone([repoInfoCall EXCEPT
                                    !.found = "present", !.source = "database",
                                    !.repository = InternalFormat(
                                       GitHubData(r.fullName, r.primaryLanguage,
                                                  r.stars - 10))])
          ELSE repoInfoCall' = InfoDone([repoInfoCall EXCEPT !.found = "failed",
                                                           !.thrown = TRUE,
                                                           !.error = StoreError])
  /\ UNCHANGED <<store, now, github, mode, proc, calls, analysisStatus,
                 services, listing, topicsCall, enhanceCall>>

\* fetchRepository (its error goes through the outer catch to the caller),
\* getRepositoryTopics (which throws nothing), the upsert under the
\* provider's full_name inside its own try, and the return with source
\* 'github'.
InfoFetch ==
  /\ repoInfoCall.pc = "fetch"
  /\ \E status \in ProviderStatuses, ok \in StoreOutcomes :
       LET fetched == [repoInfoCall EXCEPT !.provCalls = @ + 1, !.status = status] IN
       IF status # 200
       THEN /\ ok
            /\ repoInfoCall' = InfoDone([fetched EXCEPT
                                 !.thrown = TRUE,
                                 !.error = FetchError(status, ReqOwner, ReqRepo)])
            /\ UNCHANGED <<store, faults>>
       ELSE /\ Fault(ok)
            /\ IF ok
               THEN /\ repositories' = UpsertRepository(fetchRepository.full_name,
                                                        fetchRepository)
                    /\ nextRepoId' = IF RepositoriesByFullName(fetchRepository.full_name) = {}
                                     THEN nextRepoId + 1 ELSE nextRepoId
                    /\ repoInfoCall' = InfoDone([fetched EXCEPT
                                         !.saved = "ok", !.source = "github",
                                         !.repository = InternalFormat(fetchRepository)])
               ELSE /\ UNCHANGED <<repositories, nextRepoId>>
                    /\ repoInfoCall' =
                         IF ContinuesAfterSaveFailure
                         THEN InfoDone([fetched EXCEPT
                                 !.saved = "failed", !.source = "github",
                                 !.repository = InternalFormat(fetchRepository)])
                         ELSE InfoDone([fetched EXCEPT !.saved = "failed",
                                                       !.thrown = TRUE,
                                                       !.error = StoreError])
            /\ UNCHANGED <<aiAnalyses, nextAnalysisId>>
  /\ UNCHANGED <<now, github, mode, proc, calls, analysisStatus,
                 services, listing, topicsCall, enhanceCall>>

\* getRepositoryInfo called on its own beside the resolve calls, over a
\* store that may fail.
InitInfo == Begin("info", 0)

NextInfo ==
  \/ NextFault
  \/ InfoCall
  \/ InfoRead
  \/ InfoFetch

SpecInfo == InitInfo /\ [][NextInfo]_vars

\* C25: getRepositoryInfo never fails because of a store write failure:
\* when the key is absent from the store and the provider fetch succeeds,
\* it returns success with source 'github' and the provider's attributes
\* even if the upsert throws, while a provider fetch failure is always
\* rethrown to the caller.
C25_SaveFailureSwallowed ==
  (repoInfoCall.pc = "done" /\ repoInfoCall.found = "absent") =>
    IF repoInfoCall.status = 200
    THEN /\ ~repoInfoCall.thrown
         /\ repoInfoCall.source = "github"
         /\ repoInfoCall.repository.fullName = github.full_name
         /\ repoInfoCall.repository.primaryLanguage = github.language
         /\ repoInfoCall.repository.stars = 10 + now
    ELSE /\ repoInfoCall.thrown
         /\ repoInfoCall.error = FetchError(repoInfoCall.status, ReqOwner, ReqRepo)

\* The upsert of a call threw and the call returned all the same.
C25_Witness ==
  /\ repoInfoCall.pc = "done"
  /\ repoInfoCall.found = "absent"
  /\ repoInfoCall.status = 200
  /\ repoInfoCall.saved = "failed"
  /\ ~repoInfoCall.thrown
  /\ repoInfoCall.source = "github"

\* A getRepositoryInfo call has finished after a call that returned with
\* source 'github' and saved its row, and its own lookup did not fail.
SecondLookup ==
  /\ repoInfoCall.pc = "done"
  /\ repoInfoCall.before.source = "github"
  /\ repoInfoCall.before.saved
  /\ repoInfoCall.found # "failed"

\* A resolve call has finished that started after a getRepositoryInfo call
\* returned with source 'github' and saved its row.
ResolvedAfterInfo ==
  /\ repoInfoCall.pc = "done"
  /\ repoInfoCall.source = "github"
  /\ repoInfoCall.saved = "ok"
  /\ repoInfoCall.quiet
  /\ \E p \in Procs : proc[p].pc = "done" /\ proc[p].callNo > repoInfoCall.resolved

\* C28: getRepositoryInfo persists a fetched repository under the key it
\* looks up by: for every full_name the provider may return, after a call
\* returned with source 'github' and its store write succeeded, a second
\* call for the same owner/name finds the row (source 'database') without
\* calling the provider, and a resolve call for that key adds no second
\* repository row.
C28_PersistsUnderLookupKey ==
  /\ SecondLookup =>
       /\ repoInfoCall.source = "database"
       /\ repoInfoCall.provCalls = 0
  /\ ResolvedAfterInfo => Cardinality(repositories) <= 1

\* -------------------------------------------------- claims on resolve calls
\* Call p is an unforced call that has finished, the call before it
\* returned after invoking the generator, the analysis row p first read was
\* updated when it was CACHE_DAYS old or older, and less than CACHE_DAYS
\* have passed since that update.
AfterRegeneration(p) ==
  LET me == proc[p] IN
  /\ me.pc = "done"
  /\ ~me.forceRefresh
  /\ me.before.outcome = "returned"
  /\ me.before.genCalls >= 1
  /\ me.cached # NoAnalysis
  /\ me.cached.updatedAt - me.cached.createdAt >= CACHE_DAYS
  /\ now - me.cached.updatedAt < CACHE_DAYS

\* C26: after a resolve call has regenerated a stale analysis record, the
\* record is no longer stale: a following resolve call with
\* forceRefresh=false for the same key, made before another 7 days elapse,
\* takes the cache-hit path and invokes neither the provider nor the
\* generator.
C26_RegeneratedIsFresh ==
  \A p \in Procs :
    AfterRegeneration(p) =>
      /\ proc[p].outcome = "returned"
      /\ proc[p].provCalls = 0
      /\ proc[p].genCalls = 0

\* C27: a single resolve call invokes the provider's repository fetch
\* (fetchRepository) at most once, on every path: first-time success,
\* first-time provider failure, and forced refresh.
C27_OneProviderFetch ==
  \A p \in Procs : proc[p].provCalls <= 1

\* C29: whenever the status endpoint reports isAnalyzing = true for a key,
\* a resolve call for that key is in progress: no reachable store state
\* reports isAnalyzing = true while no analysis work is pending for that
\* key.  A request answered while no call ran, from its arrival on, does
\* not report isAnalyzing.
C29_AnalyzingMeansInProgress ==
  StatusAnswered => ~analysisStatus.response.isAnalyzing

\* C30: in the analysis-in-progress poller, once a status poll has observed
\* exists and hasAnalysis, no further status poll is issued and
\* onAnalysisComplete is invoked exactly once.  Every poll after the
\* observation observes the analysis again and sets the callback again, so
\* the callbacks set count the polls from the observation on.
C30_CompletesOnce ==
  poller.callbacks <= 1
====
